---------------------------- MODULE Spec2Model ----------------------------
(***************************************************************************)
(* Model of intel_streamer (src/main.go, the first program of the file,    *)
(* lines 1-215): a background loop that polls the Hacker News API,         *)
(* classifies each new story with an external model runner, keeps the      *)
(* formatted results in a bounded newest-first buffer and renders that     *)
(* buffer with a position-dependent fade.                                  *)
(*                                                                         *)
(* A Go string is modelled as a sequence of tokens (TLA+ strings).  A      *)
(* token is either the newline "\n", or a piece of text that the program   *)
(* never looks into.  Concatenation is \o.                                 *)
(***************************************************************************)
EXTENDS Integers, Sequences, FiniteSets, TLC

\* ------------------------------------------------------------ constants

maxEntries == 20

numStoriesFetch == 1

fadeLevels == <<"[white]", "[lightgray]", "[gray]", "[darkgray]", "[black]">>

\* --------------------------------------------------------------- bounds

\* Story identifiers the API can return: 101 .. 100 + NumIDs.
NumIDs == 2

\* Longest story-ID list the API returns in one cycle.
MaxListLen == 2

\* Poll cycles explored.
MaxCycles == 3

\* Poll cycles explored under fairness.
MaxFairCycles == 2

\* Insertions explored by the buffer specification (more than maxEntries).
MaxInserts == 22

\* Insertions of the buffer specification that may differ from PlainMsg.
MaxMarked == 2

\* Longest classifier output (in tokens) of the parse specification.
MaxOutLen == 4

\* ---------------------------------------------------------- environment

IDs == 101..(100 + NumIDs)

\* The errors http.Get / ioutil.ReadAll / json.Unmarshal can return.
Errors == {"network error", "decode error"}

\* What the API serves for an item: title and URL identify the story.
StoryOf(id) == [Title |-> <<"T" \o ToString(id)>>, URL |-> <<"u" \o ToString(id)>>]

IdOf(story) == CHOOSE id \in IDs : StoryOf(id) = story

\* The token sequences of length 0..n over alphabet S.
RECURSIVE SeqsUpTo(_, _)
SeqsUpTo(S, n) ==
    IF n = 0 THEN {<<>>}
    ELSE LET shorter == SeqsUpTo(S, n - 1)
         IN  shorter \cup {Append(s, x) : s \in shorter, x \in S}

\* Story-ID lists the API may answer with (any order, repeats included).
IDLists == SeqsUpTo(IDs, MaxListLen)

\* Outcomes of cmd.Run() in the poll loop: failure, or captured stdout.
LoopRuns ==
    { [err |-> TRUE, out |-> <<>>],
      [err |-> FALSE, out |-> <<"High", "\n", "Looks urgent">>],
      [err |-> FALSE, out |-> <<"no verdict">>] }

\* ------------------------------------------------------- pure functions

\* strings.Join
RECURSIVE Join(_, _)
Join(elems, sep) ==
    IF Len(elems) = 0 THEN <<>>
    ELSE IF Len(elems) = 1 THEN elems[1]
    ELSE elems[1] \o sep \o Join(Tail(elems), sep)

\* strings.Split(s, sep) for a one-token separator: always at least one piece.
RECURSIVE Split(_, _)
Split(s, sep) ==
    IF \A i \in 1..Len(s) : s[i] # sep THEN <<s>>
    ELSE LET k == CHOOSE i \in 1..Len(s) :
                      s[i] = sep /\ \A j \in 1..(i - 1) : s[j] # sep
         IN  <<SubSeq(s, 1, k - 1)>> \o Split(SubSeq(s, k + 1, Len(s)), sep)

addEntry_DropsNewest(es, message) ==
    LET grown == <<message>> \o es
    IN  IF Len(grown) > maxEntries THEN SubSeq(grown, 2, maxEntries + 1) ELSE grown

addEntry(es, message) ==
    LET grown == <<message>> \o es
    IN  IF Len(grown) > maxEntries THEN SubSeq(grown, 1, maxEntries) ELSE grown

Panic == [panic |-> TRUE, out |-> <<>>]

\* Line 114, for a divisor n # 0 (Go's / on non-negative ints is \div).
FadeIndex_Reversed(i, n) == ((n - 1 - i) * (Len(fadeLevels) - 1)) \div n

FadeIndex(i, n) == (i * (Len(fadeLevels) - 1)) \div n

\* The loop of formatEntriesWithFade; i is Go's 0-based index.  The division
\* and the slice index are evaluated inside the loop body only, and either one
\* panics at run time (divisor 0, index out of range).
RECURSIVE FadeLoop(_, _, _)
FadeLoop(es, i, formattedEntries) ==
    IF i >= Len(es) THEN [panic |-> FALSE, out |-> formattedEntries]
    ELSE IF Len(es) = 0 THEN Panic
    ELSE LET fadeIndex == FadeIndex(i, Len(es))
         IN  IF fadeIndex + 1 \notin DOMAIN fadeLevels THEN Panic
             ELSE FadeLoop(es, i + 1,
                      Append(formattedEntries,
                             <<fadeLevels[fadeIndex + 1]>> \o es[i + 1] \o <<"[-]">>))

formatEntriesWithFade_HoistedDivision(es) ==
    IF Len(es) = 0 THEN Panic
    ELSE LET r == FadeLoop(es, 0, <<>>)
         IN  IF r.panic THEN Panic
             ELSE [panic |-> FALSE, out |-> Join(r.out, <<"\n\n">>)]

formatEntriesWithFade(es) ==
    LET r == FadeLoop(es, 0, <<>>)
    IN  IF r.panic THEN Panic
        ELSE [panic |-> FALSE, out |-> Join(r.out, <<"\n\n">>)]

ZeroInsight == [Title |-> <<>>, URL |-> <<>>, Summary |-> <<>>, Priority |-> <<>>]

\* analyzeWithOllama, given what cmd.Run() did: run.err, and run.out on stdout.
analyzeWithOllama_SecondLineOnly(story, run) ==
    IF run.err THEN [insight |-> ZeroInsight, err |-> TRUE]
    ELSE LET lines == Split(run.out, "\n")
         IN  IF Len(lines) < 2
             THEN [insight |-> [Title |-> story.Title, URL |-> story.URL,
                                Summary |-> <<"[red]Invalid response format from Ollama[-]">>,
                                Priority |-> <<"Low">>],
                   err |-> FALSE]
             ELSE [insight |-> [Title |-> story.Title, URL |-> story.URL,
                                Summary |-> lines[2],
                                Priority |-> lines[1]],
                   err |-> FALSE]

analyzeWithOllama(story, run) ==
    IF run.err THEN [insight |-> ZeroInsight, err |-> TRUE]
    ELSE LET lines == Split(run.out, "\n")
         IN  IF Len(lines) < 2
             THEN [insight |-> [Title |-> story.Title, URL |-> story.URL,
                                Summary |-> <<"[red]Invalid response format from Ollama[-]">>,
                                Priority |-> <<"Low">>],
                   err |-> FALSE]
             ELSE [insight |-> [Title |-> story.Title, URL |-> story.URL,
                                Summary |-> Join(Tail(lines), <<" ">>),
                                Priority |-> lines[1]],
                   err |-> FALSE]

Placeholder == <<"[red]Analysis not available[-]">>

\* main, lines 71-74: the insight the entry is formatted from.
InsightForEntry_NoPlaceholder(res) == res.insight

InsightForEntry(res) ==
    IF res.err THEN [res.insight EXCEPT !.Summary = Placeholder] ELSE res.insight

\* main, lines 75-76.
Message(insight) ==
    <<"[yellow]Priority: ">> \o insight.Priority \o <<"[-]\n[green]">> \o insight.Title
        \o <<"[-]\n">> \o insight.URL \o <<"\n">> \o insight.Summary

\* main, line 67.
ErrorMessage(err) == <<"[red]Error: ", err, "[-]">>

\* fetchTopStories, lines 142-153: from the iteration with 0-based index i on,
\* the index of the next ID whose details are fetched, or Len(ids) when the loop
\* ends (by exhaustion or by the break).
RECURSIVE NextFetch(_, _, _, _)
NextFetch_NoSeenCheck(ids, i, sts, seen) ==
    IF i >= Len(ids) THEN Len(ids) ELSE i

NextFetch(ids, i, sts, seen) ==
    IF i >= Len(ids) THEN Len(ids)
    ELSE IF ids[i + 1] \notin seen THEN i
    ELSE IF Len(sts) >= numStoriesFetch THEN Len(ids)
    ELSE NextFetch(ids, i + 1, sts, seen)

\* Lines 150-152 after the details fetch of iteration i, then the next iteration.
AfterIter(ids, i, sts, seen) ==
    IF Len(sts) >= numStoriesFetch THEN Len(ids) ELSE NextFetch(ids, i + 1, sts, seen)

\* Where the goroutine goes once the scan stands at index i.
AfterScan(ids, i, sts) ==
    IF i < Len(ids) THEN "details"
    ELSE IF Len(sts) = 0 THEN "render"
    ELSE "analyze"

\* ---------------------------------------------------------------- state

VARIABLES
    pc,            \* where the polling goroutine stands
    entries,       \* main's entries slice, newest first
    seenStoryIDs,  \* main's seenStoryIDs map, as the set of keys mapped to true
    storyIDs,      \* fetchTopStories' storyIDs
    idx,           \* 0-based index of the range loop over storyIDs
    stories,       \* fetchTopStories' stories, then the rest of main's range loop
    view,          \* the text of feedView
    cycles,        \* number of the current poll cycle
    log,           \* history: what happened in the current cycle
    entries0,      \* history: entries when the current cycle began
    seen0,         \* history: seenStoryIDs when the current cycle began
    feed,          \* history: every addEntry call, oldest first: the message, why
                   \* it was added (ev) and for which story ID (0: for none)
    fetchFailed,   \* history: IDs whose details fetch has failed
    call,          \* parse specification: the arguments of analyzeWithOllama
    ret            \* parse specification: what analyzeWithOllama returned

vars == <<pc, entries, seenStoryIDs, storyIDs, idx, stories, view, cycles,
          log, entries0, seen0, feed, fetchFailed, call, ret>>

Event(ev, id) == [ev |-> ev, id |-> id]

Fed(message, ev, id) == [msg |-> message, ev |-> ev, id |-> id]

NoCall == [story |-> StoryOf(101), run |-> [err |-> TRUE, out |-> <<>>]]

NoRet == [insight |-> ZeroInsight, err |-> FALSE]

Init ==
    /\ pc = "fetch"
    /\ entries = <<>>
    /\ seenStoryIDs = {}
    /\ storyIDs = <<>>
    /\ idx = 0
    /\ stories = <<>>
    /\ view = <<>>
    /\ cycles = 1
    /\ log = <<>>
    /\ entries0 = <<>>
    /\ seen0 = {}
    /\ feed = <<>>
    /\ fetchFailed = {}
    /\ call = NoCall
    /\ ret = NoRet

\* ------------------------------------------------------------ poll loop

\* Lines 65-67 with 124-138: the list fetch fails, the error becomes an entry.
FetchListFail_Swallowed ==
    /\ pc = "fetch"
    /\ \E err \in Errors :
           log' = Append(log, Event("listFail", 0))
    /\ pc' = "render"
    /\ UNCHANGED <<entries, feed, seenStoryIDs, storyIDs, idx, stories, view, cycles,
                   entries0, seen0, fetchFailed, call, ret>>

FetchListFail ==
    /\ pc = "fetch"
    /\ \E err \in Errors :
           /\ entries' = addEntry(entries, ErrorMessage(err))
           /\ feed' = Append(feed, Fed(ErrorMessage(err), "listFail", 0))
    /\ log' = Append(log, Event("listFail", 0))
    /\ pc' = "render"
    /\ UNCHANGED <<seenStoryIDs, storyIDs, idx, stories, view, cycles,
                   entries0, seen0, fetchFailed, call, ret>>

\* Lines 124-143: the list is fetched and decoded; the scan runs up to the first
\* ID that needs a details fetch.
FetchListOk ==
    /\ pc = "fetch"
    /\ \E ids \in IDLists :
           LET i == NextFetch(ids, 0, <<>>, seenStoryIDs)
           IN  /\ pc' = AfterScan(ids, i, <<>>)
               /\ storyIDs' = IF i < Len(ids) THEN ids ELSE <<>>
               /\ idx' = IF i < Len(ids) THEN i ELSE 0
    /\ stories' = <<>>
    /\ log' = Append(log, Event("listOk", 0))
    /\ UNCHANGED <<entries, seenStoryIDs, view, cycles, entries0, seen0, feed,
                   fetchFailed, call, ret>>

\* What the scan leaves after the details fetch of storyIDs[idx] ended with
\* stories sts and seen set seen.
ScanOn(sts, seen) ==
    LET i == AfterIter(storyIDs, idx, sts, seen)
    IN  /\ pc' = AfterScan(storyIDs, i, sts)
        /\ storyIDs' = IF i < Len(storyIDs) THEN storyIDs ELSE <<>>
        /\ idx' = IF i < Len(storyIDs) THEN i ELSE 0
        /\ stories' = sts
        /\ seenStoryIDs' = seen

\* Lines 144-148, err == nil.
DetailsOk_NotMarked ==
    /\ pc = "details"
    /\ ScanOn(Append(stories, StoryOf(storyIDs[idx + 1])), seenStoryIDs)
    /\ log' = Append(log, Event("detailsOk", storyIDs[idx + 1]))
    /\ UNCHANGED <<entries, view, cycles, entries0, seen0, feed, fetchFailed, call, ret>>

DetailsOk ==
    /\ pc = "details"
    /\ ScanOn(Append(stories, StoryOf(storyIDs[idx + 1])),
              seenStoryIDs \cup {storyIDs[idx + 1]})
    /\ log' = Append(log, Event("detailsOk", storyIDs[idx + 1]))
    /\ UNCHANGED <<entries, view, cycles, entries0, seen0, feed, fetchFailed, call, ret>>

\* Lines 144-145, err != nil: nothing is done with the ID.
DetailsFail_AddsErrorEntry ==
    /\ pc = "details"
    /\ ScanOn(stories, seenStoryIDs)
    /\ entries' = addEntry(entries, ErrorMessage("network error"))
    /\ feed' = Append(feed, Fed(ErrorMessage("network error"), "detailsFail", 0))
    /\ log' = Append(log, Event("detailsFail", storyIDs[idx + 1]))
    /\ fetchFailed' = fetchFailed \cup {storyIDs[idx + 1]}
    /\ UNCHANGED <<view, cycles, entries0, seen0, call, ret>>

DetailsFail_Returns ==
    /\ pc = "details"
    /\ pc' = "exit"
    /\ log' = Append(log, Event("detailsFail", storyIDs[idx + 1]))
    /\ fetchFailed' = fetchFailed \cup {storyIDs[idx + 1]}
    /\ UNCHANGED <<entries, seenStoryIDs, storyIDs, idx, stories, view, cycles,
                   entries0, seen0, feed, call, ret>>

DetailsFail ==
    /\ pc = "details"
    /\ ScanOn(stories, seenStoryIDs)
    /\ log' = Append(log, Event("detailsFail", storyIDs[idx + 1]))
    /\ fetchFailed' = fetchFailed \cup {storyIDs[idx + 1]}
    /\ UNCHANGED <<entries, view, cycles, entries0, seen0, feed, call, ret>>

Outcome(res) == IF res.err THEN "classifyFail" ELSE "classifyOk"

\* Lines 69-78: one iteration of main's range loop over the fetched stories.
Analyze ==
    /\ pc = "analyze"
    /\ \E run \in LoopRuns :
           LET story == Head(stories)
               res == analyzeWithOllama(story, run)
               message == Message(InsightForEntry(res))
           IN  /\ entries' = addEntry(entries, message)
               /\ feed' = Append(feed, Fed(message, Outcome(res), IdOf(story)))
               /\ log' = Append(log, Event(Outcome(res), IdOf(story)))
    /\ stories' = Tail(stories)
    /\ pc' = IF Len(stories) > 1 THEN "analyze" ELSE "render"
    /\ UNCHANGED <<seenStoryIDs, storyIDs, idx, view, cycles, entries0, seen0,
                   fetchFailed, call, ret>>

\* Line 82.  A run-time panic in the goroutine ends the process.
Render ==
    /\ pc = "render"
    /\ LET r == formatEntriesWithFade(entries)
       IN  /\ pc' = IF r.panic THEN "panic" ELSE "sleep"
           /\ view' = IF r.panic THEN view ELSE r.out
    /\ UNCHANGED <<entries, seenStoryIDs, storyIDs, idx, stories, cycles,
                   log, entries0, seen0, feed, fetchFailed, call, ret>>

\* Line 85, then the next iteration of the for loop, up to cycle number limit.
SleepWithin(limit) ==
    /\ pc = "sleep"
    /\ cycles < limit
    /\ pc' = "fetch"
    /\ cycles' = cycles + 1
    /\ log' = <<>>
    /\ entries0' = entries
    /\ seen0' = seenStoryIDs
    /\ UNCHANGED <<entries, seenStoryIDs, storyIDs, idx, stories, view, feed,
                   fetchFailed, call, ret>>

Sleep == SleepWithin(MaxCycles)

FairSleep == SleepWithin(MaxFairCycles)

\* --------------------------------------------------- buffer specification
\* addEntry and formatEntriesWithFade on their own: MaxInserts insertions, more
\* than the buffer holds, each followed by a rendering.

PlainMsg == ErrorMessage("network error")

BufMsgs ==
    { PlainMsg,
      ErrorMessage("decode error"),
      Message(analyzeWithOllama(StoryOf(101),
                  [err |-> FALSE, out |-> <<"High", "\n", "Looks urgent">>]).insight) }

Marked(fd) == Cardinality({i \in DOMAIN fd : fd[i].msg # PlainMsg})

BufInit ==
    /\ pc = "buf_render"
    /\ entries = <<>>
    /\ seenStoryIDs = {}
    /\ storyIDs = <<>>
    /\ idx = 0
    /\ stories = <<>>
    /\ view = <<>>
    /\ cycles = 1
    /\ log = <<>>
    /\ entries0 = <<>>
    /\ seen0 = {}
    /\ feed = <<>>
    /\ fetchFailed = {}
    /\ call = NoCall
    /\ ret = NoRet

BufAdd ==
    /\ pc = "buf_add"
    /\ Len(feed) < MaxInserts
    /\ \E message \in BufMsgs :
           /\ message = PlainMsg \/ Marked(feed) < MaxMarked
           /\ entries' = addEntry(entries, message)
           /\ feed' = Append(feed, Fed(message, "insert", 0))
    /\ pc' = "buf_render"
    /\ UNCHANGED <<seenStoryIDs, storyIDs, idx, stories, view, cycles, log,
                   entries0, seen0, fetchFailed, call, ret>>

BufRender ==
    /\ pc = "buf_render"
    /\ LET r == formatEntriesWithFade(entries)
       IN  /\ pc' = IF r.panic THEN "panic" ELSE "buf_add"
           /\ view' = IF r.panic THEN view ELSE r.out
    /\ UNCHANGED <<entries, seenStoryIDs, storyIDs, idx, stories, cycles,
                   log, entries0, seen0, feed, fetchFailed, call, ret>>

BufNext ==
    \/ BufAdd
    \/ BufRender

BufferSpec == BufInit /\ [][BufNext]_vars

\* ---------------------------------------------------- parse specification
\* analyzeWithOllama on its own, on every classifier outcome up to MaxOutLen
\* tokens.

OutAlphabet == {"High", "\n", "ok"}

ParseRuns ==
    {[err |-> TRUE, out |-> <<>>]}
        \cup {[err |-> FALSE, out |-> o] : o \in SeqsUpTo(OutAlphabet, MaxOutLen)}

ParseInit ==
    /\ pc = "parse_call"
    /\ call \in {[story |-> StoryOf(id), run |-> run] : id \in IDs, run \in ParseRuns}
    /\ ret = NoRet
    /\ entries = <<>>
    /\ seenStoryIDs = {}
    /\ storyIDs = <<>>
    /\ idx = 0
    /\ stories = <<>>
    /\ view = <<>>
    /\ cycles = 1
    /\ log = <<>>
    /\ entries0 = <<>>
    /\ seen0 = {}
    /\ feed = <<>>
    /\ fetchFailed = {}

ParseRun ==
    /\ pc = "parse_call"
    /\ ret' = analyzeWithOllama(call.story, call.run)
    /\ pc' = "parse_done"
    /\ UNCHANGED <<entries, seenStoryIDs, storyIDs, idx, stories, view, cycles,
                   log, entries0, seen0, feed, fetchFailed, call>>

ParseNext == ParseRun

ParseSpec == ParseInit /\ [][ParseNext]_vars

\* -------------------------------------------------------- specifications

Next ==
    \/ FetchListFail
    \/ FetchListOk
    \/ DetailsOk
    \/ DetailsFail
    \/ Analyze
    \/ Render
    \/ Sleep

Spec == Init /\ [][Next]_vars

FairNext ==
    \/ FetchListFail
    \/ FetchListOk
    \/ DetailsOk
    \/ DetailsFail
    \/ Analyze
    \/ Render
    \/ FairSleep

\* The goroutine is the only process and each of its calls returns.
FairSpec == Init /\ [][FairNext]_vars /\ WF_vars(FairNext)


\* ------------------------------------------------------------ properties

Min(a, b) == IF a <= b THEN a ELSE b

Last(s) == s[Len(s)]

Terminated == pc \in {"panic", "exit"}

IsFadeLevel(tok) == \E k \in DOMAIN fadeLevels : fadeLevels[k] = tok

\* 0-based position of a fade colour in fadeLevels.
BucketOf(tok) == (CHOOSE k \in DOMAIN fadeLevels : fadeLevels[k] = tok) - 1

HasEvent(ev, id) == \E k \in DOMAIN log : log[k] = Event(ev, id)

CountEvents(ev) == Cardinality({k \in DOMAIN log : log[k].ev = ev})

Carries(message, tok) == \E k \in DOMAIN message : message[k] = tok

\* C1: in the buffer specification, after any sequence of addEntry calls from
\* the empty buffer, the buffer is never longer than maxEntries and holds the
\* min(m, maxEntries) most recent of the m inserted messages, newest at index 0,
\* the rest in insertion order behind it (so the oldest are the ones dropped).
C1_BufferKeepsMostRecent ==
    /\ Len(entries) <= maxEntries
    /\ Len(entries) = Min(Len(feed), maxEntries)
    /\ \A i \in 1..Len(entries) : entries[i] = feed[Len(feed) - i + 1].msg

\* C1 witness: more than maxEntries insertions were made, the buffer is full and
\* the oldest insertion, a message unlike the newest, is gone from it.
C1_Witness ==
    /\ Len(feed) > maxEntries
    /\ Len(entries) = maxEntries
    /\ feed[1].msg # PlainMsg
    /\ \A i \in 1..Len(entries) : entries[i] = PlainMsg

\* C2: in the buffer specification, the rendering of a buffer of n >= 1 entries
\* consists of n segments joined by blank lines, segment i being a fade colour,
\* entry i and the reset tag; the colour of the newest entry is the first fade
\* level, the bucket of entry i (0-based) is floor(i * (K - 1) / n), and buckets
\* never decrease with i.
C2_FadeBuckets ==
    (pc = "buf_add" /\ Len(entries) >= 1) =>
        LET n == Len(entries)
            K == Len(fadeLevels)
            tags == SelectSeq(view, IsFadeLevel)
            segments == Split(view, "\n\n")
        IN  /\ Len(tags) = n
            /\ Len(segments) = n
            /\ \A i \in 1..n : segments[i] = <<tags[i]>> \o entries[i] \o <<"[-]">>
            /\ tags[1] = fadeLevels[1]
            /\ \A i \in 1..n :
                   /\ BucketOf(tags[i]) * n <= (i - 1) * (K - 1)
                   /\ (i - 1) * (K - 1) < (BucketOf(tags[i]) + 1) * n
            /\ \A i \in 1..(n - 1) : BucketOf(tags[i]) <= BucketOf(tags[i + 1])

\* C2 witness: a full buffer has been rendered, and its oldest entry is shown in
\* a later fade level than its newest.
C2_Witness ==
    /\ pc = "buf_add"
    /\ Len(entries) = maxEntries
    /\ Len(SelectSeq(view, IsFadeLevel)) = maxEntries
    /\ BucketOf(Last(SelectSeq(view, IsFadeLevel))) > 0

\* C3: the poll loop never panics in a rendering, and whenever it has rendered
\* an empty buffer the text shown is the empty string.
C3_EmptyRenderIsEmpty ==
    /\ pc # "panic"
    /\ (pc = "sleep" /\ entries = <<>>) => view = <<>>

\* C3 witness: a cycle in which the list was fetched but the only details fetch
\* failed has rendered the still empty buffer.
C3_Witness ==
    /\ pc = "sleep"
    /\ entries = <<>>
    /\ CountEvents("detailsFail") > 0

\* C4: an ID whose details fetch failed in this cycle (and did not succeed in
\* it) is left unseen and no addEntry call was ever made for it; the cycle's
\* story entries are exactly as many as its successful details fetches, none
\* for a failure; and the goroutine has not terminated.
C4_FailedDetailsSkipped ==
    /\ ~Terminated
    /\ \A id \in IDs :
           (HasEvent("detailsFail", id) /\ ~HasEvent("detailsOk", id)) =>
               /\ id \notin seenStoryIDs
               /\ \A k \in DOMAIN feed : feed[k].id # id
    /\ (pc \in {"render", "sleep"} /\ HasEvent("listOk", 0)) =>
           /\ Len(entries) = Min(Len(entries0) + CountEvents("detailsOk"), maxEntries)
           /\ \A i \in (CountEvents("detailsOk") + 1)..Len(entries) :
                  entries[i] = entries0[i - CountEvents("detailsOk")]

\* C4 witness: a cycle whose details fetch failed has reached the sleep with the
\* buffer as it was, and a next cycle has started after it.
C4_Witness ==
    /\ pc = "sleep"
    /\ cycles >= 2
    /\ CountEvents("detailsFail") > 0
    /\ CountEvents("detailsOk") = 0
    /\ entries = entries0
    /\ entries # <<>>

\* C5: right after a failed classification the newest entry of the buffer is the
\* one just added for that story, it ends in the "Analysis not available"
\* placeholder, the rest of the buffer is what the cycle began with, and the
\* goroutine goes on to the rendering.
C5_ClassifierFailurePlaceholder ==
    (log # <<>> /\ Last(log).ev = "classifyFail") =>
        /\ pc \in {"analyze", "render", "sleep"}
        /\ Len(entries) = Min(Len(entries0) + 1, maxEntries)
        /\ \A i \in 2..Len(entries) : entries[i] = entries0[i - 1]
        /\ entries[1] = Last(feed).msg
        /\ Last(feed).id = Last(log).id
        /\ Last(entries[1]) = "[red]Analysis not available[-]"

\* C5 witness: a classification failed in a second or later cycle, whose entry
\* stands in front of an older one, and the cycle reached its sleep.
C5_Witness ==
    /\ log # <<>>
    /\ Last(log).ev = "classifyFail"
    /\ pc = "sleep"
    /\ Len(entries) >= 2

\* C6: in a cycle whose list fetch failed nothing else happens: the buffer is the
\* one the cycle began with plus one "[red]Error: ...[-]" entry in front, no
\* story entry is added, the seen set is the one the cycle began with, and the
\* goroutine goes on to render and sleep.
C6_ListFailureOneErrorEntry ==
    (log # <<>> /\ log[1].ev = "listFail") =>
        /\ Len(log) = 1
        /\ pc \in {"render", "sleep"}
        /\ Len(entries) = Min(Len(entries0) + 1, maxEntries)
        /\ \A i \in 2..Len(entries) : entries[i] = entries0[i - 1]
        /\ Len(entries[1]) = 3
        /\ entries[1][1] = "[red]Error: "
        /\ entries[1][2] \in Errors
        /\ entries[1][3] = "[-]"
        /\ Last(feed).ev = "listFail"
        /\ seenStoryIDs = seen0

\* C6 witness: a list fetch failed in a cycle that began with a seen story, and
\* the cycle reached its sleep.
C6_Witness ==
    /\ log # <<>>
    /\ log[1].ev = "listFail"
    /\ pc = "sleep"
    /\ seen0 # {}
    /\ Len(entries) >= 2

Fetching == pc \in {"fetch", "details", "analyze", "render"}

Idle == pc = "sleep"

\* C7: under fairness of the goroutine's steps, every Fetching cycle reaches the
\* rendering and then the sleep, the sleep is entered only from the rendering
\* with the view set to the rendered buffer, every change of position leads to
\* Fetching or Idle again, and every sleep (short of the last cycle explored) is
\* followed by a new Fetching cycle.
C7_LoopAlternates ==
    /\ Fetching ~> (pc = "render")
    /\ (pc = "render") ~> Idle
    /\ (Idle /\ cycles < MaxFairCycles) ~> (pc = "fetch")
    /\ [][pc' = "sleep" => (pc = "render" /\ view' = formatEntriesWithFade(entries).out)]_vars
    /\ [][pc # pc' => (Fetching' \/ Idle')]_vars

\* C7 witness: a cycle with a failed details fetch and a cycle with a failed
\* classification both lie behind, and the loop is asleep again.
C7_Witness ==
    /\ Idle
    /\ cycles >= 2
    /\ fetchFailed # {}
    /\ \E k \in DOMAIN feed : feed[k].ev = "classifyFail"
    /\ \E k \in DOMAIN feed : feed[k].ev = "listFail"

FirstNewline(out) ==
    CHOOSE k \in DOMAIN out : out[k] = "\n" /\ \A j \in 1..(k - 1) : out[j] # "\n"

\* C8: in the parse specification, for a classifier output with at least one
\* newline (two or more lines), the priority is the text before the first
\* newline, the summary is the text after it with every newline replaced by one
\* space, title and URL are the story's, and no error is returned.
C8_PriorityAndSummary ==
    (pc = "parse_done" /\ ~call.run.err /\ Carries(call.run.out, "\n")) =>
        LET out == call.run.out
            k == FirstNewline(out)
        IN  /\ ~ret.err
            /\ ret.insight.Priority = SubSeq(out, 1, k - 1)
            /\ Len(ret.insight.Summary) = Len(out) - k
            /\ \A i \in 1..(Len(out) - k) :
                   ret.insight.Summary[i] = IF out[k + i] = "\n" THEN " " ELSE out[k + i]
            /\ ret.insight.Title = call.story.Title
            /\ ret.insight.URL = call.story.URL

\* C8 witness: an output of three lines whose middle line is empty was parsed.
C8_Witness ==
    /\ pc = "parse_done"
    /\ call.run = [err |-> FALSE, out |-> <<"High", "\n", "\n", "ok">>]
    /\ ret.insight.Summary = <<" ", "ok">>

DetailsStep(ev, id) == log' = Append(log, Event(ev, id))

\* C9: no story ID ever has more than one addEntry call made for it; a cycle
\* makes at most numStoriesFetch of them; a details fetch is only ever made for
\* an unseen ID; the seen set changes exactly by gaining the ID of a successful
\* details fetch, so a failed fetch leaves its ID unseen.
C9_OneEntryPerStory ==
    /\ [](\A id \in IDs : Cardinality({k \in DOMAIN feed : feed[k].id = id}) <= 1)
    /\ [](CountEvents("classifyOk") + CountEvents("classifyFail") <= numStoriesFetch)
    /\ [][\A id \in IDs :
              /\ (DetailsStep("detailsOk", id) \/ DetailsStep("detailsFail", id))
                     => id \notin seenStoryIDs
              /\ DetailsStep("detailsOk", id) => seenStoryIDs' = seenStoryIDs \cup {id}
              /\ DetailsStep("detailsFail", id) => seenStoryIDs' = seenStoryIDs]_vars
    /\ [][seenStoryIDs' # seenStoryIDs =>
              \E id \in IDs : DetailsStep("detailsOk", id)]_vars

\* C9 witness: an ID whose details fetch failed in an earlier cycle was fetched
\* in this one, and the entry for it has been added.
C9_Witness ==
    \E id \in IDs :
        /\ id \in fetchFailed
        /\ ~HasEvent("detailsFail", id)
        /\ HasEvent("detailsOk", id)
        /\ id \notin seen0
        /\ \E k \in DOMAIN feed : feed[k].id = id

\* C10: the entry added for a story whose classification failed is the format
\* with empty priority, title and URL and the placeholder summary, and no entry
\* ever added carries that story's title or URL.
C10_FailedStoryLeavesNoTrace ==
    \A k \in DOMAIN feed :
        feed[k].ev = "classifyFail" =>
            /\ feed[k].msg = <<"[yellow]Priority: ", "[-]\n[green]", "[-]\n", "\n",
                               "[red]Analysis not available[-]">>
            /\ feed[k].id \in seenStoryIDs
            /\ \A j \in DOMAIN feed :
                   /\ ~Carries(feed[j].msg, StoryOf(feed[k].id).Title[1])
                   /\ ~Carries(feed[j].msg, StoryOf(feed[k].id).URL[1])

\* C10 witness: after a failed classification a later cycle was offered a list
\* and added the entry of another story.
C10_Witness ==
    \E k \in DOMAIN feed :
        /\ feed[k].ev = "classifyFail"
        /\ \E j \in DOMAIN feed : j > k /\ feed[j].ev = "classifyOk"

=============================================================================
